---- MODULE Spec2Model ----
(***************************************************************************)
(* Model of SqlBatchReader (duckdb_batch_reader.go): a pull-based reader   *)
(* that drains a database/sql cursor into Arrow record batches of at most  *)
(* maxBatchSize rows, with reference-counted teardown.                     *)
(*                                                                         *)
(* The reader's fields keep their Go names.  A Go pointer or interface is  *)
(* a record with a field "nil".  The cursor (an sql.Rows) is the reader's  *)
(* environment: its content is drawn in Init from a bounded family of      *)
(* result sets, its advance, scan and close are modelled at the places     *)
(* where the reader calls them.                                            *)
(***************************************************************************)
EXTENDS Integers, Sequences, FiniteSets

VARIABLES
    refCount,      \* SqlBatchReader.refCount
    schema,        \* SqlBatchReader.schema
    rows,          \* SqlBatchReader.rows (the reference to the cursor)
    record,        \* SqlBatchReader.record (the batch Record() returns)
    bldr,          \* SqlBatchReader.bldr (the RecordBuilder and its columns)
    err,           \* SqlBatchReader.err
    rowdest,       \* SqlBatchReader.rowdest
    cursor,        \* the result set behind *sql.Rows: row count, failing row, null pattern
    pos,           \* number of rows the cursor has advanced over
    status,        \* "open", "closed" (Close was called) or "failed" (a fetch failed)
    closes,        \* number of rows.Close() calls made by the reader
    bldrReleases,  \* number of bldr.Release() calls
    unreleased,    \* number of batches finalized by NewRecord() and not yet released
    discarded,     \* cursor rows appended by a Next() call that then hit a scan failure
    last,          \* the last call made on the reader and what it returned
    nTrue,         \* number of Next() calls that returned true
    retains,       \* number of Retain() calls so far
    releases,      \* number of Release() calls so far
    panicked,      \* a call ended in a Go runtime panic (nil dereference)
    owned,         \* per holder: the references it owns
    pc             \* per holder: "idle", or the outcome of its atomic decrement

vars == <<refCount, schema, rows, record, bldr, err, rowdest, cursor, pos, status,
          closes, bldrReleases, unreleased, discarded, last, nTrue, retains,
          releases, panicked, owned, pc>>

readerVars == <<schema, rows, record, bldr, err, rowdest>>
cursorVars == <<cursor, pos, status>>

-----------------------------------------------------------------------------
(* Bounds of the model *)

\* result sets have q*maxBatchSize + r rows, q in 0..MaxBatches, |r| <= MaxOff
MaxBatches == 2
MaxOff == 1
\* the null pattern of a column repeats with this period
PatLen == 2
\* where every operation of the reader is exercised, result sets have at
\* most this many rows
MaxSmall == 2
\* Retain() is called at most this often
MaxRetains == 2
\* Release() is not called any more once the count is this far below zero
MaxUnder == 1
\* number of concurrent holders of the reader
NumHolders == 2

-----------------------------------------------------------------------------
(* Program constants *)

maxBatchSize == 1024

-----------------------------------------------------------------------------
(* Nil values of the reader's pointer fields *)

Nil == [nil |-> TRUE]

Holders == 1..NumHolders

\* A function on 1..n written out as a sequence.
AsSeq(f) == SubSeq(f, 1, Len(f))

-----------------------------------------------------------------------------
(* The schema and the scan destinations *)

\* The schema the reader is constructed with: one nullable int32 column.
Schemas == { << [name |-> "c0", type |-> "INT32", nullable |-> TRUE] >> }

\* One scan destination per field, of the shape the field's type and
\* nullability select; a type without a case leaves the slot nil.
AllocDest(f) ==
    CASE f.type \in {"DENSE_UNION", "SPARSE_UNION"} ->
            [kind |-> "iface", valid |-> FALSE, val |-> 0]
      [] f.type \in {"UINT8", "INT8"} ->
            IF f.nullable THEN [kind |-> "NullByte", valid |-> FALSE, val |-> 0]
                          ELSE [kind |-> "uint8", valid |-> TRUE, val |-> 0]
      [] f.type = "INT32" ->
            IF f.nullable THEN [kind |-> "NullInt32", valid |-> FALSE, val |-> 0]
                          ELSE [kind |-> "int32", valid |-> TRUE, val |-> 0]
      [] f.type = "INT64" ->
            IF f.nullable THEN [kind |-> "NullInt64", valid |-> FALSE, val |-> 0]
                          ELSE [kind |-> "int64", valid |-> TRUE, val |-> 0]
      [] f.type \in {"FLOAT32", "FLOAT64"} ->
            IF f.nullable THEN [kind |-> "NullFloat64", valid |-> FALSE, val |-> 0]
                          ELSE [kind |-> "float64", valid |-> TRUE, val |-> 0]
      [] f.type = "BINARY" ->
            [kind |-> "bytes", valid |-> FALSE, val |-> <<>>]
      [] f.type = "STRING" ->
            IF f.nullable THEN [kind |-> "NullString", valid |-> FALSE, val |-> 0]
                          ELSE [kind |-> "string", valid |-> TRUE, val |-> 0]
      [] OTHER -> [kind |-> "nil", valid |-> FALSE, val |-> 0]

\* array.NewRecordBuilder(mem, schema): one empty column builder per field.
NewRecordBuilder(fields) ==
    [nil |-> FALSE,
     cols |-> AsSeq([i \in 1..Len(fields) |-> [type |-> fields[i].type, vals |-> <<>>]]),
     ids |-> <<>>]

\* The reader NewDuckDBBatchReaderWithSchema returns.
NewReader(fields) ==
    [refCount |-> 1,
     bldr |-> NewRecordBuilder(fields),
     schema |-> [nil |-> FALSE, fields |-> fields],
     rowdest |-> [nil |-> FALSE,
                  dests |-> AsSeq([i \in 1..Len(fields) |-> AllocDest(fields[i])])],
     rows |-> [nil |-> FALSE]]

-----------------------------------------------------------------------------
(* The cursor *)

\* Row counts of the result sets: around each multiple of the batch size.
RowCounts ==
    { n \in 0..(MaxBatches * maxBatchSize + MaxOff) :
        \E q \in 0..MaxBatches :
            \/ (n >= q * maxBatchSize /\ n - q * maxBatchSize <= MaxOff)
            \/ (n < q * maxBatchSize /\ q * maxBatchSize - n <= MaxOff) }

NoBad == 0 - 1

\* A result set: n rows; row bad (if any) holds a value no destination can
\* convert, so that scanning it fails; any other row i is NULL where the
\* pattern says so and holds the value i otherwise.
Cursors ==
    { c \in [n : RowCounts \cup 0..MaxSmall,
             bad : {NoBad} \cup RowCounts \cup 0..MaxSmall,
             nulls : [1..PatLen -> BOOLEAN]] : c.bad < c.n }

SmallCursors == { c \in Cursors : c.n <= MaxSmall }

Cell(cur, i) ==
    IF i = cur.bad THEN [null |-> FALSE, v |-> i, conv |-> FALSE]
    ELSE IF cur.nulls[(i % PatLen) + 1] THEN [null |-> TRUE, v |-> 0, conv |-> TRUE]
    ELSE [null |-> FALSE, v |-> i, conv |-> TRUE]

\* rows.Next(): false once the cursor is closed, has failed or is exhausted,
\* otherwise advance to the next row.  c is the cursor's position and status.
RowsNext(cur, c) ==
    IF c.status # "open" THEN [ok |-> FALSE, why |-> c.status, c |-> c]
    ELSE IF c.pos >= cur.n THEN [ok |-> FALSE, why |-> "eof", c |-> c]
    ELSE [ok |-> TRUE, why |-> "row", c |-> [c EXCEPT !.pos = @ + 1]]

\* The byte sequence a binary column holds for the value v: v bytes, so
\* that the value 0 is the empty sequence.
Bytes(v) == [k \in 1..v |-> 1]

\* Scan of one cell into one destination (convertAssign of database/sql and
\* the Scan methods of its nullable wrappers): a wrapper takes NULL as
\* invalid, a raw slot cannot take NULL, an unallocated slot takes nothing,
\* a byte slice is nil (valid = FALSE) for NULL.
ScanCell(d, cell) ==
    CASE d.kind = "nil" -> [ok |-> FALSE, d |-> d]
      [] d.kind \in {"NullByte", "NullInt32", "NullInt64", "NullFloat64", "NullString"} ->
            IF cell.null THEN [ok |-> TRUE, d |-> [d EXCEPT !.valid = FALSE, !.val = 0]]
            ELSE IF ~cell.conv THEN [ok |-> FALSE, d |-> [d EXCEPT !.valid = TRUE]]
            ELSE [ok |-> TRUE, d |-> [d EXCEPT !.valid = TRUE, !.val = cell.v]]
      [] d.kind = "iface" ->
            IF cell.null THEN [ok |-> TRUE, d |-> [d EXCEPT !.valid = FALSE, !.val = 0]]
            ELSE IF ~cell.conv THEN [ok |-> FALSE, d |-> d]
            ELSE [ok |-> TRUE, d |-> [d EXCEPT !.valid = TRUE, !.val = cell.v]]
      [] d.kind = "bytes" ->
            IF cell.null THEN [ok |-> TRUE, d |-> [d EXCEPT !.valid = FALSE, !.val = <<>>]]
            ELSE IF ~cell.conv THEN [ok |-> FALSE, d |-> d]
            ELSE [ok |-> TRUE, d |-> [d EXCEPT !.valid = TRUE, !.val = AsSeq(Bytes(cell.v))]]
      [] OTHER ->
            IF cell.null \/ ~cell.conv THEN [ok |-> FALSE, d |-> d]
            ELSE [ok |-> TRUE, d |-> [d EXCEPT !.val = cell.v]]

\* rows.Scan(r.rowdest...) of the row the cursor stands on (row c.pos - 1):
\* the destinations are filled left to right, the first failure stops it.
RowsScan(cur, c, dests) ==
    LET i == c.pos - 1
        res == [j \in 1..Len(dests) |-> ScanCell(dests[j], Cell(cur, i))]
        failed == { j \in 1..Len(dests) : ~res[j].ok }
        firstFail == IF failed = {} THEN Len(dests) + 1
                     ELSE CHOOSE j \in failed : \A k \in failed : j <= k
    IN  [ok |-> failed = {},
         dests |-> AsSeq([j \in 1..Len(dests) |->
                              IF j <= firstFail THEN res[j].d ELSE dests[j]])]

-----------------------------------------------------------------------------
(* The column builders *)

\* fb.AppendNull() and fb.Append(v) on one column builder.
AppendNull(fb) == [fb EXCEPT !.vals = Append(@, [null |-> TRUE, v |-> 0])]
AppendValue(fb, v) == [fb EXCEPT !.vals = Append(@, [null |-> FALSE, v |-> v])]

\* The type switch of Next() on one destination v and its column builder fb:
\* the case is chosen by the destination's kind, the builder is asserted to
\* be of the case's builder type (a failed assertion panics), a destination
\* kind without a case appends nothing.
AppendDest(fb, v) ==
    LET typed(ts, col) == IF fb.type \in ts THEN [panic |-> FALSE, fb |-> col]
                                           ELSE [panic |-> TRUE, fb |-> fb]
        nullable(ts) == IF ~v.valid THEN [panic |-> FALSE, fb |-> AppendNull(fb)]
                        ELSE typed(ts, AppendValue(fb, v.val))
    IN  CASE v.kind = "uint8" -> typed({"UINT8"}, AppendValue(fb, v.val))
          [] v.kind = "NullByte" -> nullable({"UINT8"})
          [] v.kind = "int64" -> typed({"INT64"}, AppendValue(fb, v.val))
          [] v.kind = "NullInt64" -> nullable({"INT64"})
          [] v.kind = "int32" -> typed({"INT32"}, AppendValue(fb, v.val))
          [] v.kind = "NullInt32" -> nullable({"INT32"})
          [] v.kind = "float64" ->
                IF fb.type \in {"FLOAT64", "FLOAT32"}
                THEN [panic |-> FALSE, fb |-> AppendValue(fb, v.val)]
                ELSE [panic |-> FALSE, fb |-> fb]
          [] v.kind = "NullFloat64" ->
                IF ~v.valid THEN [panic |-> FALSE, fb |-> AppendNull(fb)]
                ELSE IF fb.type \in {"FLOAT64", "FLOAT32"}
                THEN [panic |-> FALSE, fb |-> AppendValue(fb, v.val)]
                ELSE [panic |-> FALSE, fb |-> fb]
          [] v.kind = "bytes" ->
                \* "if v == nil" tests the pointer to the slice, not the slice
                IF v.kind = "nil" THEN [panic |-> FALSE, fb |-> AppendNull(fb)]
                ELSE typed({"BINARY"}, AppendValue(fb, v.val))
          [] v.kind = "string" -> typed({"STRING"}, AppendValue(fb, v.val))
          [] v.kind = "NullString" -> nullable({"STRING"})
          [] OTHER -> [panic |-> FALSE, fb |-> fb]

\* The inner loop of Next() over r.rowdest: every destination is appended to
\* the column builder of its field.
AppendRow(b, dests) ==
    LET res == [i \in 1..Len(dests) |-> AppendDest(b.cols[i], dests[i])]
    IN  [panic |-> \E i \in 1..Len(dests) : res[i].panic,
         cols |-> AsSeq([i \in 1..Len(dests) |-> res[i].fb])]

\* r.bldr.NewRecord(): the columns built so far become an immutable batch
\* and every column builder is reset to empty.
NewRecord(b, fields) ==
    [record |-> [nil |-> FALSE, fields |-> fields,
                 cols |-> AsSeq([i \in 1..Len(b.cols) |-> b.cols[i].vals]),
                 ids |-> b.ids],
     bldr |-> [b EXCEPT !.cols = AsSeq([i \in 1..Len(b.cols) |->
                                           [b.cols[i] EXCEPT !.vals = <<>>]]),
                        !.ids = <<>>]]

-----------------------------------------------------------------------------
(* Next() *)

\* A loop condition that lets one row too many into the batch.
BatchHasRoomInclusive(n) == n <= maxBatchSize

\* The loop condition's first conjunct: rows < maxBatchSize.
BatchHasRoom(n) == n < maxBatchSize

\* One pass of "for rows < maxBatchSize && r.rows.Next() { ... }": the test
\* of the condition and, if it holds, the body.  s holds the locals of the
\* call (rows), the cursor's position and status (c), the destinations, the
\* builder, and how the loop ended (why) once it has (done).
LoopStep(cur, s) ==
    IF ~BatchHasRoom(s.rows) THEN [s EXCEPT !.done = TRUE, !.why = "cap"]
    ELSE LET adv == RowsNext(cur, s.c)
         IN  IF ~adv.ok THEN [s EXCEPT !.done = TRUE, !.why = adv.why]
             ELSE LET sc == RowsScan(cur, adv.c, s.dests)
                  IN  IF ~sc.ok
                      THEN [s EXCEPT !.done = TRUE, !.why = "scanerr",
                                     !.c = adv.c, !.dests = sc.dests]
                      ELSE LET ap == AppendRow(s.bldr, sc.dests)
                           IN  IF ap.panic
                               THEN [s EXCEPT !.done = TRUE, !.why = "panic",
                                              !.c = adv.c, !.dests = sc.dests,
                                              !.bldr.cols = ap.cols]
                               ELSE [s EXCEPT !.rows = @ + 1,
                                              !.c = adv.c, !.dests = sc.dests,
                                              !.bldr.cols = ap.cols,
                                              !.bldr.ids = Append(@, adv.c.pos - 1)]

\* The loop runs LoopStep until it is done.  It is unrolled in blocks of
\* LoopBlock passes to keep the depth of the recursion small.
LoopBlock ==
    CHOOSE k \in 1..maxBatchSize :
        k * k > maxBatchSize /\ (k - 1) * (k - 1) <= maxBatchSize

RECURSIVE LoopPasses(_, _, _)
LoopPasses(cur, s, k) ==
    IF s.done \/ k = 0 THEN s ELSE LoopPasses(cur, LoopStep(cur, s), k - 1)

RECURSIVE LoopBlocks(_, _, _)
LoopBlocks(cur, s, k) ==
    IF s.done \/ k = 0 THEN s
    ELSE LoopBlocks(cur, LoopPasses(cur, s, LoopBlock), k - 1)

NextLoop(cur, c, dests, b) ==
    LoopBlocks(cur,
               [rows |-> 0, c |-> c, dests |-> dests, bldr |-> b,
                done |-> FALSE, why |-> "run"],
               LoopBlock)

\* The error Next() records for a failed scan: the cursor's error wrapped
\* in a status that carries the schema as detail.
ScanError(sch) == [nil |-> FALSE, code |-> "Unknown", detail |-> sch.fields]

\* The value Next() returns after the loop.
NextResult(n) == n > 0

\* A head of Next() that forgets the previous batch without releasing it.
DropRecordNoRelease(rec) ==
    [released |-> 0, record |-> Nil]

\* The head of Next(): "if r.record != nil { r.record.Release(); r.record = nil }".
DropRecord(rec) ==
    [released |-> IF rec.nil THEN 0 ELSE 1, record |-> Nil]

\* r.bldr.NewRecord() panics when the columns differ in length.
NewRecordPanics(b) ==
    \E i \in 2..Len(b.cols) : Len(b.cols[i].vals) # Len(b.cols[i - 1].vals)

\* What a call leaves in "last".
Call(op, ret, start, n, why, errBefore, bldrBefore) ==
    [op |-> op, ret |-> ret, start |-> start, n |-> n, why |-> why,
     errBefore |-> errBefore, bldrBefore |-> bldrBefore]

NoCall == Call("new", FALSE, 0, 0, "", FALSE, 0)

\* The body of r.Next().  A reader that was torn down has r.rows = nil, and
\* the call panics on r.rows.Next().
NextBody ==
    /\ IF rows.nil
       THEN /\ panicked' = TRUE
            /\ record' = DropRecord(record).record
            /\ unreleased' = unreleased - DropRecord(record).released
            /\ last' = Call("Next", FALSE, pos, 0, "panic", ~err.nil, 0)
            /\ UNCHANGED <<schema, rows, bldr, err, rowdest, cursorVars, discarded, nTrue>>
       ELSE LET released == unreleased - DropRecord(record).released
                dropped == DropRecord(record).record
                before == Len(bldr.ids)
            IN  \E s \in {NextLoop(cursor, [pos |-> pos, status |-> status],
                                   rowdest.dests, bldr)} :
                /\ pos' = s.c.pos
                /\ status' = s.c.status
                /\ rowdest' = [rowdest EXCEPT !.dests = s.dests]
                /\ UNCHANGED <<schema, rows, cursor>>
                /\ CASE s.why = "scanerr" ->
                          /\ err' = ScanError(schema)
                          /\ record' = dropped
                          /\ bldr' = s.bldr
                          /\ unreleased' = released
                          /\ discarded' = discarded \cup
                                 { s.bldr.ids[i] : i \in (before + 1)..Len(s.bldr.ids) }
                          /\ nTrue' = nTrue
                          /\ panicked' = FALSE
                          /\ last' = Call("Next", FALSE, pos, s.rows, s.why, ~err.nil, before)
                     [] s.why = "panic" \/ NewRecordPanics(s.bldr) ->
                          /\ panicked' = TRUE
                          /\ record' = dropped
                          /\ bldr' = s.bldr
                          /\ unreleased' = released
                          /\ last' = Call("Next", FALSE, pos, s.rows,
                                          IF s.why = "panic" THEN "panic" ELSE "unequal",
                                          ~err.nil, before)
                          /\ UNCHANGED <<err, discarded, nTrue>>
                     [] OTHER ->
                          LET nr == NewRecord(s.bldr, schema.fields)
                          IN  /\ record' = nr.record
                              /\ bldr' = nr.bldr
                              /\ unreleased' = released + 1
                              /\ nTrue' = IF NextResult(s.rows) THEN nTrue + 1 ELSE nTrue
                              /\ panicked' = FALSE
                              /\ last' = Call("Next", NextResult(s.rows), pos, s.rows,
                                              s.why, ~err.nil, before)
                              /\ UNCHANGED <<err, discarded>>
    /\ UNCHANGED <<refCount, closes, bldrReleases, retains, releases, owned>>

\* r.Next() as one step of its caller.
NextCall ==
    /\ NextBody
    /\ UNCHANGED pc

Next ==
    /\ ~panicked
    /\ NextCall

-----------------------------------------------------------------------------
(* Retain() and Release() *)

\* A test of Release() on the count before the decrement instead of after.
DropsToOne(n) == n = 1

\* The test of Release() on the value the atomic decrement returns.
DropsToZero(n) == n = 0

\* A teardown that closes and releases but leaves the reader's fields set.
TeardownKeepsFields(rd) ==
    [panic |-> FALSE, closes |-> 1, bldrReleases |-> 1,
     recReleases |-> IF rd.record.nil THEN 0 ELSE 1,
     rows |-> rd.rows, schema |-> rd.schema, rowdest |-> rd.rowdest,
     bldr |-> rd.bldr, record |-> Nil]

\* The body of "if atomic.AddInt64(&r.refCount, -1) == 0 { ... }" on the
\* reader's fields rd.  On a reader that was torn down before, r.rows is nil
\* and r.rows.Close() panics.
Teardown(rd) ==
    IF rd.rows.nil
    THEN [panic |-> TRUE, closes |-> 0, bldrReleases |-> 0, recReleases |-> 0,
          rows |-> rd.rows, schema |-> rd.schema, rowdest |-> rd.rowdest,
          bldr |-> rd.bldr, record |-> rd.record]
    ELSE IF rd.bldr.nil
    THEN [panic |-> TRUE, closes |-> 1, bldrReleases |-> 0, recReleases |-> 0,
          rows |-> Nil, schema |-> Nil, rowdest |-> Nil,
          bldr |-> rd.bldr, record |-> rd.record]
    ELSE [panic |-> FALSE, closes |-> 1, bldrReleases |-> 1,
          recReleases |-> IF rd.record.nil THEN 0 ELSE 1,
          rows |-> Nil, schema |-> Nil, rowdest |-> Nil,
          bldr |-> Nil, record |-> Nil]

\* rows.Close(): closes an open cursor, is idempotent otherwise.
RowsClose(st) == IF st = "open" THEN "closed" ELSE st

RunTeardown ==
    LET t == Teardown([rows |-> rows, schema |-> schema, rowdest |-> rowdest,
                       bldr |-> bldr, record |-> record])
    IN  /\ panicked' = t.panic
        /\ closes' = closes + t.closes
        /\ status' = IF t.closes > 0 THEN RowsClose(status) ELSE status
        /\ bldrReleases' = bldrReleases + t.bldrReleases
        /\ unreleased' = unreleased - t.recReleases
        /\ rows' = t.rows
        /\ schema' = t.schema
        /\ rowdest' = t.rowdest
        /\ bldr' = t.bldr
        /\ record' = t.record

\* r.Retain()
Retain ==
    /\ ~panicked
    /\ retains < MaxRetains
    /\ refCount' = refCount + 1
    /\ retains' = retains + 1
    /\ last' = Call("Retain", FALSE, pos, 0, "", ~err.nil, 0)
    /\ UNCHANGED <<readerVars, cursorVars, closes, bldrReleases, unreleased, discarded,
                   nTrue, releases, panicked, owned, pc>>

\* r.Release(), called by the one thread that uses the reader.
Release ==
    /\ ~panicked
    /\ refCount > 0 - MaxUnder
    /\ refCount' = refCount - 1
    /\ releases' = releases + 1
    /\ last' = Call("Release", FALSE, pos, 0, "", ~err.nil, 0)
    /\ IF DropsToZero(refCount - 1)
       THEN RunTeardown
       ELSE UNCHANGED <<readerVars, status, closes, bldrReleases, unreleased, panicked>>
    /\ UNCHANGED <<err, cursor, pos, discarded, nTrue, retains, owned, pc>>

-----------------------------------------------------------------------------
(* The environment *)

\* The cursor stops delivering rows: it is closed underneath the reader
\* (cancellation), or fetching the next row fails in the driver.
CursorAbort(kind) ==
    /\ ~panicked
    /\ status = "open"
    /\ status' = kind
    /\ UNCHANGED <<refCount, readerVars, cursor, pos, closes, bldrReleases, unreleased,
                   discarded, last, nTrue, retains, releases, panicked, owned, pc>>

-----------------------------------------------------------------------------
(* The reader after construction *)

InitReader(cs) ==
    /\ \E f \in Schemas :
        LET r == NewReader(f)
        IN  /\ refCount = r.refCount
            /\ schema = r.schema
            /\ rows = r.rows
            /\ bldr = r.bldr
            /\ rowdest = r.rowdest
    /\ record = Nil
    /\ err = Nil
    /\ cursor \in cs
    /\ pos = 0
    /\ status = "open"
    /\ closes = 0
    /\ bldrReleases = 0
    /\ unreleased = 0
    /\ discarded = {}
    /\ last = NoCall
    /\ nTrue = 0
    /\ retains = 0
    /\ releases = 0
    /\ panicked = FALSE
    /\ owned = [h \in Holders |-> IF h = 1 THEN 1 ELSE 0]
    /\ pc = [h \in Holders |-> "idle"]

-----------------------------------------------------------------------------
(* One thread uses the reader: every operation, on small result sets *)

Init == InitReader(SmallCursors)

NextStep ==
    \/ Next
    \/ Retain
    \/ Release
    \/ \E kind \in {"closed", "failed"} : CursorAbort(kind)

Spec == Init /\ [][NextStep]_vars

-----------------------------------------------------------------------------
(* One thread drains the cursor with Next(): result sets of every size *)

InitBatches == InitReader(Cursors)

NextBatches ==
    \/ Next
    \/ \E kind \in {"closed", "failed"} : CursorAbort(kind)

SpecBatches == InitBatches /\ [][NextBatches]_vars

-----------------------------------------------------------------------------
(* Several holders share the reader.  Each holder releases only references
   it owns and retains only while it owns one; the atomic decrement of
   Release() and the teardown that follows it are separate steps, so that
   the calls of different holders interleave. *)

\* r.Retain() by holder h, the new reference is handed to holder g.
RetainBy(h, g) ==
    /\ ~panicked
    /\ pc[h] = "idle"
    /\ owned[h] > 0
    /\ retains < MaxRetains
    /\ refCount' = refCount + 1
    /\ retains' = retains + 1
    /\ owned' = [owned EXCEPT ![g] = @ + 1]
    /\ last' = Call("Retain", FALSE, pos, 0, "", ~err.nil, 0)
    /\ UNCHANGED <<readerVars, cursorVars, closes, bldrReleases, unreleased, discarded,
                   nTrue, releases, panicked, pc>>

\* r.Release() by holder h, up to and including atomic.AddInt64(&r.refCount, -1).
ReleaseDec(h) ==
    /\ ~panicked
    /\ pc[h] = "idle"
    /\ owned[h] > 0
    /\ refCount' = refCount - 1
    /\ releases' = releases + 1
    /\ owned' = [owned EXCEPT ![h] = @ - 1]
    /\ pc' = [pc EXCEPT ![h] = IF DropsToZero(refCount - 1) THEN "teardown" ELSE "idle"]
    /\ last' = Call("Release", FALSE, pos, 0, "", ~err.nil, 0)
    /\ UNCHANGED <<readerVars, cursorVars, closes, bldrReleases, unreleased, discarded,
                   nTrue, retains, panicked>>

\* r.Release() by holder h, the body of the if.
ReleaseTeardown(h) ==
    /\ ~panicked
    /\ pc[h] = "teardown"
    /\ RunTeardown
    /\ pc' = [pc EXCEPT ![h] = "idle"]
    /\ UNCHANGED <<refCount, err, cursor, pos, discarded, last, nTrue, retains,
                   releases, owned>>

\* r.Next() by holder h.
NextBy(h) ==
    /\ ~panicked
    /\ pc[h] = "idle"
    /\ owned[h] > 0
    /\ NextCall

InitHolders == InitReader(SmallCursors)

NextHolders ==
    \/ \E h \in Holders, g \in Holders : RetainBy(h, g)
    \/ \E h \in Holders : ReleaseDec(h)
    \/ \E h \in Holders : ReleaseTeardown(h)
    \/ \E h \in Holders : NextBy(h)

SpecHolders == InitHolders /\ [][NextHolders]_vars

-----------------------------------------------------------------------------
(* Properties *)

\* Number of rows of a batch: the length of its columns.
NumRows(rec) == IF Len(rec.cols) = 0 THEN 0 ELSE Len(rec.cols[1])

CeilDiv(n, d) == (n + d - 1) \div d

\* The cursor has not failed and will not: no row fails to scan, and the
\* cursor was not closed or broken underneath the reader.
NeverFails == cursor.bad = NoBad /\ status = "open"

\* C1: for a cursor of N rows that never fails, Next() returns true exactly
\* ceil(N/maxBatchSize) times; every batch but the last has maxBatchSize
\* rows, the last has the remaining N - maxBatchSize*(ceil(N/maxBatchSize)-1)
\* rows, and Next() returns false only once all of them were returned.
C1_BatchCount ==
    (NeverFails /\ last.op = "Next") =>
        LET full == CeilDiv(cursor.n, maxBatchSize)
        IN  /\ nTrue <= full
            /\ last.ret =>
                  /\ ~record.nil
                  /\ NumRows(record) = IF nTrue < full THEN maxBatchSize
                                       ELSE cursor.n - maxBatchSize * (full - 1)
            /\ ~last.ret => nTrue = full

\* C1 witness: a cursor of maxBatchSize + 1 rows, after the third Next(),
\* which returned false after two batches.
C1_Witness ==
    /\ NeverFails /\ cursor.n = maxBatchSize + 1
    /\ last.op = "Next" /\ ~last.ret /\ nTrue = 2

\* C2: the batch Record() returns never has more than maxBatchSize rows.
C2_BatchWithinCap ==
    ~record.nil => NumRows(record) <= maxBatchSize

\* C3: a Next() call whose scan fails after it appended rows returns false,
\* leaves Err() non-nil and exposes no batch, and the rows it had appended
\* never appear in a batch exposed by any Next() call.
C3_FailedBatchDiscarded ==
    /\ (last.op = "Next" /\ last.why = "scanerr" /\ last.n > 0) =>
            (~last.ret /\ ~err.nil /\ record.nil)
    /\ ~record.nil => \A i \in 1..Len(record.ids) : record.ids[i] \notin discarded

\* C4: once a scan failure is recorded, Err() stays non-nil and every later
\* Next() returns false and exposes no batch.
C4_ErroredIsTerminal ==
    (last.op = "Next" /\ last.errBefore) => (~err.nil /\ ~last.ret /\ record.nil)

\* C5: holders that release only what they own, N Retain() and N+1
\* Release() calls in any interleaving: the cursor is closed exactly once,
\* by the last Release(), and never while the count is positive.
C5_CloseOnLastRelease ==
    /\ closes <= 1
    /\ closes = 1 => (refCount = 0 /\ releases = retains + 1)
    /\ refCount > 0 => (closes = 0 /\ status = "open" /\ ~rows.nil)
    /\ (releases = retains + 1 /\ \A h \in Holders : pc[h] = "idle") => closes = 1

\* C5 witness: both holders held references, every Retain() was matched and
\* the last Release(), made by the second holder, closed the cursor.
C5_Witness ==
    /\ retains = MaxRetains /\ releases = retains + 1
    /\ closes = 1 /\ status = "closed"
    /\ \A h \in Holders : pc[h] = "idle" /\ owned[h] = 0

\* C6: over any sequence of Retain() and Release(), also after the count has
\* reached zero, the cursor is closed, the builder released and the retained
\* batch released at most once, and only in a step that takes the count from
\* one to zero.
C6_TeardownAtMostOnce ==
    [][ /\ closes' <= 1
        /\ bldrReleases' <= 1
        /\ unreleased' >= 0
        /\ ( \/ closes' # closes
             \/ bldrReleases' # bldrReleases
             \/ rows' # rows
             \/ (last'.op = "Release" /\ unreleased' # unreleased) )
           => (refCount = 1 /\ refCount' = 0 /\ closes = 0 /\ bldrReleases = 0) ]_vars

\* C6 witness: after teardown, a Retain() and a Release() took the count to
\* zero a second time; that Release() ended in a panic on the nil cursor
\* reference and closed nothing.
C6_Witness ==
    /\ closes = 1 /\ bldrReleases = 1
    /\ refCount = 0 /\ releases >= 2 /\ retains >= 1
    /\ last.op = "Release" /\ panicked

\* C7: a Next() that returns false for any reason but plain exhaustion leaves
\* Err() non-nil; Err() is nil after a false Next() only if the cursor was
\* exhausted.
C7_FailureIsReported ==
    (last.op = "Next" /\ ~last.ret /\ last.why # "eof") => ~err.nil

\* C8: after a Next() that returns false because the cursor has no more
\* rows, Record() is a batch of 0 rows with the reader's schema.
C8_EmptyBatchAtEnd ==
    (last.op = "Next" /\ ~last.ret /\ last.why = "eof") =>
        (~record.nil /\ NumRows(record) = 0 /\ record.fields = schema.fields)

\* What the column of a nullable field holds for a cursor row.
Expected(cell) == [null |-> cell.null, v |-> IF cell.null THEN 0 ELSE cell.v]

\* C9: in the batch a Next() call exposes, position k holds the k-th row the
\* call scanned (null if the scan reported it invalid, its value otherwise),
\* one position per scanned row, in cursor order.
C9_RowsInOrder ==
    (last.op = "Next" /\ ~record.nil) =>
        /\ NumRows(record) = last.n
        /\ \A k \in 0..(last.n - 1) :
              k < NumRows(record) =>
                 record.cols[1][k + 1] = Expected(Cell(cursor, last.start + k))

\* C10: the reader holds at most one unreleased batch, the one Record()
\* returns; every other batch Next() finalized has been released, no batch
\* is released twice, and none is left unreleased once the reader is closed.
C10_BatchReleasedOnce ==
    /\ unreleased = (IF record.nil THEN 0 ELSE 1)
    /\ rows.nil => (record.nil /\ unreleased = 0)

\* C10 witness: the reader returned a batch, then finalized another and was
\* torn down.
C10_Witness ==
    /\ rows.nil /\ closes = 1 /\ nTrue >= 1
    /\ last.op = "Release" /\ unreleased = 0

-----------------------------------------------------------------------------
(* Type mapping.  A Go string is a sequence of one-character strings. *)

LowerLetters ==
    <<"a", "b", "c", "d", "e", "f", "g", "h", "i", "j", "k", "l", "m",
      "n", "o", "p", "q", "r", "s", "t", "u", "v", "w", "x", "y", "z">>

UpperLetters ==
    <<"A", "B", "C", "D", "E", "F", "G", "H", "I", "J", "K", "L", "M",
      "N", "O", "P", "Q", "R", "S", "T", "U", "V", "W", "X", "Y", "Z">>

\* strings.ToLower on one character and on a string.
ToLowerChar(c) ==
    IF \E k \in 1..Len(UpperLetters) : UpperLetters[k] = c
    THEN LowerLetters[CHOOSE k \in 1..Len(UpperLetters) : UpperLetters[k] = c]
    ELSE c

\* A mapping that compares the declared name as it was spelled.
KeepCase(str) == str

ToLower(str) == AsSeq([k \in 1..Len(str) |-> ToLowerChar(str[k])])

\* strings.HasPrefix
HasPrefix(str, prefix) ==
    Len(str) >= Len(prefix) /\ SubSeq(str, 1, Len(prefix)) = prefix

\* An arrow.DataType: its type id and, for the temporal types, its unit.
DataType(id, unit) == [id |-> id, unit |-> unit]

\* A default arm that answers the null type instead of panicking.
UnsupportedTypeAsNull(dbtype) == [panic |-> FALSE, type |-> DataType("NULL", "")]

\* The default arm of getArrowTypeFromString: panic("invalid sql type").
UnsupportedType(dbtype) == [panic |-> TRUE, type |-> DataType("NULL", "")]

\* getArrowTypeFromString: the type of a declared type name, or a panic.
getArrowTypeFromString(str) ==
    LET dbtype == ToLower(str)
        is(t) == [panic |-> FALSE, type |-> t]
    IN  IF dbtype = <<>> THEN is(DataType("NULL", ""))
        ELSE IF HasPrefix(dbtype, <<"v", "a", "r", "c", "h", "a", "r">>)
        THEN is(DataType("STRING", ""))
        ELSE CASE dbtype = <<"t", "i", "n", "y", "i", "n", "t">> -> is(DataType("INT8", ""))
               [] dbtype = <<"s", "m", "a", "l", "l", "i", "n", "t">> -> is(DataType("INT16", ""))
               [] dbtype \in { <<"i", "n", "t", "e", "g", "e", "r">>, <<"i", "n", "t">>,
                               <<"i", "n", "t", "3", "2">> } -> is(DataType("INT32", ""))
               [] dbtype \in { <<"b", "i", "g", "i", "n", "t">>,
                               <<"i", "n", "t", "6", "4">> } -> is(DataType("INT64", ""))
               [] dbtype = <<"f", "l", "o", "a", "t">> -> is(DataType("FLOAT32", ""))
               [] dbtype = <<"d", "o", "u", "b", "l", "e">> -> is(DataType("FLOAT64", ""))
               [] dbtype = <<"b", "l", "o", "b">> -> is(DataType("BINARY", ""))
               [] dbtype \in { <<"t", "e", "x", "t">>, <<"v", "a", "r", "c", "h", "a", "r">>,
                               <<"s", "t", "r", "i", "n", "g">> } -> is(DataType("STRING", ""))
               [] dbtype = <<"d", "a", "t", "e">> -> is(DataType("DATE32", ""))
               [] dbtype = <<"t", "i", "m", "e">> -> is(DataType("TIME32", "s"))
               [] dbtype = <<"t", "i", "m", "e", "s", "t", "a", "m", "p">> ->
                        is(DataType("TIMESTAMP", "us"))
               [] dbtype = <<"b", "o", "o", "l", "e", "a", "n">> -> is(DataType("BOOL", ""))
               [] OTHER -> UnsupportedType(dbtype)

\* duckDBDenseUnion: the dense union of int64, float64 and string.
duckDBDenseUnion ==
    [id |-> "DENSE_UNION", unit |-> "",
     children |-> << [name |-> "int", type |-> "INT64", code |-> 0],
                     [name |-> "float", type |-> "FLOAT64", code |-> 1],
                     [name |-> "string", type |-> "STRING", code |-> 2] >>]

\* The reflect.Kind of a column's ScanType(); "nil" when the column has none.
ScanKinds ==
    {"nil", "Int8", "Uint8", "Int16", "Uint16", "Int32", "Uint32", "Int", "Int64",
     "Uint64", "Float32", "Float64", "String", "Bool", "Uint", "Slice", "Struct",
     "Interface"}

\* getArrowType: the type of a column c = [dbtype, kind, ...].
getArrowType(c) ==
    LET dbtype == ToLower(c.dbtype)
        is(t) == [panic |-> FALSE, type |-> t]
    IN  IF dbtype = <<>> /\ c.kind = "nil" THEN is(duckDBDenseUnion)
        ELSE IF dbtype = <<>> /\ c.kind \in {"Int8", "Uint8"} THEN is(DataType("INT8", ""))
        ELSE IF dbtype = <<>> /\ c.kind \in {"Int16", "Uint16"} THEN is(DataType("INT16", ""))
        ELSE IF dbtype = <<>> /\ c.kind \in {"Int32", "Uint32"} THEN is(DataType("INT32", ""))
        ELSE IF dbtype = <<>> /\ c.kind \in {"Int", "Int64", "Uint64"}
        THEN is(DataType("INT64", ""))
        ELSE IF dbtype = <<>> /\ c.kind = "Float32" THEN is(DataType("FLOAT32", ""))
        ELSE IF dbtype = <<>> /\ c.kind = "Float64" THEN is(DataType("FLOAT64", ""))
        ELSE IF dbtype = <<>> /\ c.kind = "String" THEN is(DataType("STRING", ""))
        ELSE IF dbtype = <<>> /\ c.kind = "Bool" THEN is(DataType("BOOL", ""))
        ELSE getArrowTypeFromString(dbtype)

-----------------------------------------------------------------------------
(* Type mapping applied to column descriptors *)

\* The declared names of the mapping table, in lower case.
TableNames ==
    { <<"t", "i", "n", "y", "i", "n", "t">>, <<"s", "m", "a", "l", "l", "i", "n", "t">>,
      <<"i", "n", "t", "e", "g", "e", "r">>, <<"i", "n", "t">>, <<"i", "n", "t", "3", "2">>,
      <<"b", "i", "g", "i", "n", "t">>, <<"i", "n", "t", "6", "4">>,
      <<"f", "l", "o", "a", "t">>, <<"d", "o", "u", "b", "l", "e">>, <<"b", "l", "o", "b">>,
      <<"t", "e", "x", "t">>, <<"v", "a", "r", "c", "h", "a", "r">>,
      <<"s", "t", "r", "i", "n", "g">>, <<"d", "a", "t", "e">>, <<"t", "i", "m", "e">>,
      <<"t", "i", "m", "e", "s", "t", "a", "m", "p">>, <<"b", "o", "o", "l", "e", "a", "n">> }

\* Declared names that are not in the table.
OtherNames ==
    { <<"d", "e", "c", "i", "m", "a", "l">>, <<"h", "u", "g", "e", "i", "n", "t">>,
      <<"u", "u", "i", "d">>, <<"i", "n", "t", "8">>, <<"c", "h", "a", "r">> }

\* Length qualifiers that follow "varchar".
Qualifiers == { <<"(", "1", "0", ")">>, <<"2", "5", "5">>, <<"(", "m", "a", "x", ")">> }

ToUpperChar(c) ==
    IF \E k \in 1..Len(LowerLetters) : LowerLetters[k] = c
    THEN UpperLetters[CHOOSE k \in 1..Len(LowerLetters) : LowerLetters[k] = c]
    ELSE c

\* The name str with the characters at the positions of up in upper case.
Spell(str, up) ==
    AsSeq([k \in 1..Len(str) |-> IF k \in up THEN ToUpperChar(str[k]) ELSE str[k]])

\* The positions of the letters of a name.
LetterPositions(str) ==
    { k \in 1..Len(str) : \E j \in 1..Len(LowerLetters) : LowerLetters[j] = str[k] }

\* Column descriptors: the declared name as the cursor spells it (dbtype),
\* the kind of its scan type, and the lower-case name and qualifier the
\* spelling was made from.
NamedColumns(names, quals, kinds) ==
    UNION { { [dbtype |-> Spell(b \o q, up), kind |-> k, base |-> b, qual |-> q] :
                up \in SUBSET LetterPositions(b \o q), k \in kinds } :
            b \in names, q \in quals }

MapInputs ==
    NamedColumns(TableNames, {<<>>}, {"nil", "Int64"})
        \cup NamedColumns({<<"v", "a", "r", "c", "h", "a", "r">>}, Qualifiers, {"nil"})
        \cup NamedColumns(OtherNames, {<<>>}, {"nil"})
        \cup NamedColumns({<<>>}, {<<>>}, ScanKinds)

InitMapType ==
    /\ refCount = 0
    /\ schema = Nil /\ rows = Nil /\ record = Nil /\ bldr = Nil /\ err = Nil
    /\ rowdest = Nil
    /\ cursor \in { [col |-> c] : c \in MapInputs }
    /\ pos = 0
    /\ status = "open"
    /\ closes = 0
    /\ bldrReleases = 0
    /\ unreleased = 0
    /\ discarded = {}
    /\ last = NoCall
    /\ nTrue = 0
    /\ retains = 0
    /\ releases = 0
    /\ panicked = FALSE
    /\ owned = [h \in Holders |-> 0]
    /\ pc = [h \in Holders |-> "idle"]

\* One call of getArrowType on the column.
MapType ==
    /\ last.op = "new"
    /\ last' = [op |-> "getArrowType", ret |-> getArrowType(cursor.col)]
    /\ UNCHANGED <<refCount, readerVars, cursorVars, closes, bldrReleases, unreleased,
                   discarded, nTrue, retains, releases, panicked, owned, pc>>

NextMapType == MapType

SpecMapType == InitMapType /\ [][NextMapType]_vars

\* The canonical type the mapping table documents for a declared name.
Documented(name) ==
    CASE name = <<"t", "i", "n", "y", "i", "n", "t">> -> DataType("INT8", "")
      [] name = <<"s", "m", "a", "l", "l", "i", "n", "t">> -> DataType("INT16", "")
      [] name = <<"i", "n", "t", "e", "g", "e", "r">> -> DataType("INT32", "")
      [] name = <<"i", "n", "t">> -> DataType("INT32", "")
      [] name = <<"i", "n", "t", "3", "2">> -> DataType("INT32", "")
      [] name = <<"b", "i", "g", "i", "n", "t">> -> DataType("INT64", "")
      [] name = <<"i", "n", "t", "6", "4">> -> DataType("INT64", "")
      [] name = <<"f", "l", "o", "a", "t">> -> DataType("FLOAT32", "")
      [] name = <<"d", "o", "u", "b", "l", "e">> -> DataType("FLOAT64", "")
      [] name = <<"b", "l", "o", "b">> -> DataType("BINARY", "")
      [] name = <<"t", "e", "x", "t">> -> DataType("STRING", "")
      [] name = <<"v", "a", "r", "c", "h", "a", "r">> -> DataType("STRING", "")
      [] name = <<"s", "t", "r", "i", "n", "g">> -> DataType("STRING", "")
      [] name = <<"d", "a", "t", "e">> -> DataType("DATE32", "")
      [] name = <<"t", "i", "m", "e">> -> DataType("TIME32", "s")
      [] name = <<"t", "i", "m", "e", "s", "t", "a", "m", "p">> -> DataType("TIMESTAMP", "us")
      [] name = <<"b", "o", "o", "l", "e", "a", "n">> -> DataType("BOOL", "")

\* C12: getArrowType maps every name of the table, in any letter case, and
\* every "varchar" name with a length qualifier to the documented type, and
\* an empty name without a scan type to the union of int64, float64 and
\* string.
C12_MapTypeTable ==
    last.op = "getArrowType" =>
        LET c == cursor.col
        IN  /\ c.base \in TableNames =>
                  (~last.ret.panic /\ last.ret.type = Documented(c.base))
            /\ (c.base = <<>> /\ c.kind = "nil") =>
                  /\ ~last.ret.panic
                  /\ last.ret.type.id = "DENSE_UNION"
                  /\ { ch.type : ch \in { last.ret.type.children[k] : k \in 1..3 } }
                        = {"INT64", "FLOAT64", "STRING"}
                  /\ Len(last.ret.type.children) = 3

\* C12 witness: "TIMESTAMP" in upper case was mapped.
C12_Witness ==
    /\ last.op = "getArrowType"
    /\ cursor.col.dbtype = <<"T", "I", "M", "E", "S", "T", "A", "M", "P">>
    /\ last.ret.type = DataType("TIMESTAMP", "us")

\* The kinds of scan type the mapping is to handle: the signed and unsigned
\* integers, the floats, string and boolean.
EnumeratedKinds ==
    {"Int8", "Uint8", "Int16", "Uint16", "Int32", "Uint32", "Int", "Int64", "Uint64",
     "Float32", "Float64", "String", "Bool", "Uint"}

\* C14: for an empty declared name and a scan type of a kind that is not
\* enumerated, type mapping fails at once and returns no type.
C14_UnknownKindIsFatal ==
    (/\ last.op = "getArrowType"
     /\ cursor.col.dbtype = <<>>
     /\ cursor.col.kind \notin EnumeratedKinds \cup {"nil"})
        => last.ret.panic

-----------------------------------------------------------------------------
(* Construction *)

\* Column descriptors with the declared name in lower case.
PlainColumns(names, kinds) ==
    { [dbtype |-> b, kind |-> k, base |-> b, qual |-> <<>>] : b \in names, k \in kinds }

\* The columns rows.ColumnTypes() reports: the descriptor of each column with
\* its name and nullability.
Column(c, name, nullable) ==
    [dbtype |-> c.dbtype, kind |-> c.kind, base |-> c.base, qual |-> c.qual,
     name |-> name, nullable |-> nullable]

ColumnDescs ==
    PlainColumns(TableNames \cup OtherNames, {"nil"}) \cup PlainColumns({<<>>}, ScanKinds)

\* Column lists: every single column, and every column after an unnamed
\* integer column.
ColumnLists ==
    { << Column(c, <<"c", "0">>, nl) >> : c \in ColumnDescs, nl \in BOOLEAN }
        \cup { << Column([dbtype |-> <<"i", "n", "t">>, kind |-> "nil",
                          base |-> <<"i", "n", "t">>, qual |-> <<>>], <<"?">>, TRUE),
                  Column(c, <<"?">>, TRUE) >> : c \in ColumnDescs }

\* The type ids of arrow a schema's field can have here.
TypeIDs ==
    {"NULL", "BOOL", "UINT8", "INT8", "INT16", "INT32", "INT64", "FLOAT32", "FLOAT64",
     "STRING", "BINARY", "DATE32", "TIME32", "TIMESTAMP", "DENSE_UNION", "SPARSE_UNION"}

\* The schemas a caller passes to NewDuckDBBatchReaderWithSchema: every
\* single field, and every field after a nullable int32 field.
TypedSchemas ==
    { << [name |-> <<"c", "0">>, type |-> t, nullable |-> nl] >> :
            t \in TypeIDs, nl \in BOOLEAN }
        \cup { << [name |-> <<"c", "0">>, type |-> "INT32", nullable |-> TRUE],
                  [name |-> <<"c", "1">>, type |-> t, nullable |-> TRUE] >> : t \in TypeIDs }

\* What a construction is given: the result set, and either a schema or the
\* cursor's column metadata, which rows.ColumnTypes() may fail to report.
Constructions ==
    { [n |-> c.n, bad |-> c.bad, nulls |-> c.nulls, ctor |-> "schema",
       metaErr |-> FALSE, cols |-> <<>>, fields |-> f] :
            c \in SmallCursors, f \in TypedSchemas }
        \cup { [n |-> c.n, bad |-> c.bad, nulls |-> c.nulls, ctor |-> "infer",
                metaErr |-> FALSE, cols |-> l, fields |-> <<>>] :
            c \in SmallCursors, l \in ColumnLists }
        \cup { [n |-> c.n, bad |-> c.bad, nulls |-> c.nulls, ctor |-> "infer",
                metaErr |-> TRUE, cols |-> <<>>, fields |-> <<>>] : c \in SmallCursors }

\* strconv.Itoa of a column index below ten.
Itoa(i) == << <<"0", "1", "2", "3", "4", "5", "6", "7", "8", "9">>[i + 1] >>

\* The name NewDuckDBBatchReader gives the field of column i (from 0).
FieldName(name, i) == IF name = <<"?">> THEN name \o <<":">> \o Itoa(i) ELSE name

\* The loop of NewDuckDBBatchReader over the columns up to the scan
\* destinations: the fields, or a panic of getArrowType.
InferFields(cols) ==
    LET ts == [i \in 1..Len(cols) |-> getArrowType(cols[i])]
    IN  [panic |-> \E i \in 1..Len(cols) : ts[i].panic,
         fields |-> AsSeq([i \in 1..Len(cols) |->
                        [name |-> FieldName(cols[i].name, i - 1),
                         type |-> ts[i].type.id,
                         nullable |-> cols[i].nullable]])]

\* The switch of NewDuckDBBatchReader on fields[i].Type.ID().
AllocInferredDest(f) ==
    CASE f.type \in {"DENSE_UNION", "SPARSE_UNION"} ->
            [kind |-> "iface", valid |-> FALSE, val |-> 0]
      [] f.type \in {"UINT8", "INT8"} ->
            IF f.nullable THEN [kind |-> "NullByte", valid |-> FALSE, val |-> 0]
                          ELSE [kind |-> "uint8", valid |-> TRUE, val |-> 0]
      [] f.type = "INT32" ->
            IF f.nullable THEN [kind |-> "NullInt32", valid |-> FALSE, val |-> 0]
                          ELSE [kind |-> "int32", valid |-> TRUE, val |-> 0]
      [] f.type = "INT64" ->
            IF f.nullable THEN [kind |-> "NullInt64", valid |-> FALSE, val |-> 0]
                          ELSE [kind |-> "int64", valid |-> TRUE, val |-> 0]
      [] f.type \in {"FLOAT64", "FLOAT32"} ->
            IF f.nullable THEN [kind |-> "NullFloat64", valid |-> FALSE, val |-> 0]
                          ELSE [kind |-> "float64", valid |-> TRUE, val |-> 0]
      [] f.type = "BINARY" ->
            [kind |-> "bytes", valid |-> FALSE, val |-> <<>>]
      [] f.type = "STRING" ->
            IF f.nullable THEN [kind |-> "NullString", valid |-> FALSE, val |-> 0]
                          ELSE [kind |-> "string", valid |-> TRUE, val |-> 0]
      [] OTHER -> [kind |-> "nil", valid |-> FALSE, val |-> 0]

\* The reader NewDuckDBBatchReader returns.
NewInferredReader(fields) ==
    [refCount |-> 1,
     bldr |-> NewRecordBuilder(fields),
     schema |-> [nil |-> FALSE, fields |-> fields],
     rowdest |-> [nil |-> FALSE,
                  dests |-> AsSeq([i \in 1..Len(fields) |-> AllocInferredDest(fields[i])])],
     rows |-> [nil |-> FALSE]]

\* A failure path that returns the error and leaves the cursor open.
MetaFailureNoClose(st, n) == [status |-> st, closes |-> n]

\* "if err != nil { rows.Close(); return nil, err }" after rows.ColumnTypes().
MetaFailure(st, n) == [status |-> RowsClose(st), closes |-> n + 1]

\* The caller holds the reader a constructor returned.
Built == owned[1] > 0

\* The reader of the state becomes rd, handed to the caller.
Install(rd, op) ==
    /\ refCount' = rd.refCount
    /\ schema' = rd.schema
    /\ rows' = rd.rows
    /\ bldr' = rd.bldr
    /\ rowdest' = rd.rowdest
    /\ owned' = [owned EXCEPT ![1] = 1]
    /\ last' = Call(op, TRUE, pos, 0, "", FALSE, 0)
    /\ UNCHANGED <<record, err, cursorVars, closes, bldrReleases, unreleased,
                   discarded, nTrue, retains, releases, panicked, pc>>

NewDuckDBBatchReaderWithSchema ==
    /\ ~panicked /\ last.op = "new" /\ cursor.ctor = "schema"
    /\ Install(NewReader(cursor.fields), "NewDuckDBBatchReaderWithSchema")

NewDuckDBBatchReader ==
    /\ ~panicked /\ last.op = "new" /\ cursor.ctor = "infer"
    /\ IF cursor.metaErr
       THEN /\ status' = MetaFailure(status, closes).status
            /\ closes' = MetaFailure(status, closes).closes
            /\ last' = Call("NewDuckDBBatchReader", FALSE, pos, 0, "metaerr", FALSE, 0)
            /\ UNCHANGED <<refCount, readerVars, cursor, pos, bldrReleases, unreleased,
                           discarded, nTrue, retains, releases, panicked, owned, pc>>
       ELSE \E fs \in {InferFields(cursor.cols)} :
                IF fs.panic
                THEN /\ panicked' = TRUE
                     /\ last' = Call("NewDuckDBBatchReader", FALSE, pos, 0, "panic", FALSE, 0)
                     /\ UNCHANGED <<refCount, readerVars, cursorVars, closes, bldrReleases,
                                    unreleased, discarded, nTrue, retains, releases, owned,
                                    pc>>
                ELSE Install(NewInferredReader(fs.fields), "NewDuckDBBatchReader")

InitConstruct ==
    /\ refCount = 0
    /\ schema = Nil /\ rows = Nil /\ record = Nil /\ bldr = Nil /\ err = Nil
    /\ rowdest = Nil
    /\ cursor \in Constructions
    /\ pos = 0
    /\ status = "open"
    /\ closes = 0
    /\ bldrReleases = 0
    /\ unreleased = 0
    /\ discarded = {}
    /\ last = NoCall
    /\ nTrue = 0
    /\ retains = 0
    /\ releases = 0
    /\ panicked = FALSE
    /\ owned = [h \in Holders |-> 0]
    /\ pc = [h \in Holders |-> "idle"]

NextConstruct ==
    \/ NewDuckDBBatchReaderWithSchema
    \/ NewDuckDBBatchReader
    \/ (Built /\ Next)
    \/ (Built /\ Release)

SpecConstruct == InitConstruct /\ [][NextConstruct]_vars

\* C11: when the cursor's column metadata cannot be obtained, construction
\* closes the cursor exactly once, returns the error and no reader, and
\* advances no row.
C11_MetadataFailureCloses ==
    (cursor.ctor = "infer" /\ cursor.metaErr /\ last.op # "new") =>
        /\ last.op = "NewDuckDBBatchReader" /\ last.why = "metaerr"
        /\ closes = 1 /\ status = "closed"
        /\ ~last.ret /\ ~Built /\ refCount = 0
        /\ schema.nil /\ rows.nil /\ bldr.nil /\ rowdest.nil
        /\ pos = 0 /\ ~panicked

\* C11 witness: construction failed on the metadata of a cursor with rows.
C11_Witness ==
    /\ last.op = "NewDuckDBBatchReader" /\ last.why = "metaerr"
    /\ cursor.n > 0 /\ closes = 1

\* C13: a declared name that is not empty and not in the table makes
\* construction fail: no reader, no substituted type, no row processed.
C13_UnsupportedNameFails ==
    (/\ cursor.ctor = "infer" /\ ~cursor.metaErr /\ last.op # "new"
     /\ \E i \in 1..Len(cursor.cols) : cursor.cols[i].base \in OtherNames)
        => /\ last.op = "NewDuckDBBatchReader" /\ last.why = "panic"
           /\ panicked /\ ~last.ret /\ ~Built /\ refCount = 0
           /\ schema.nil /\ rows.nil /\ bldr.nil /\ rowdest.nil
           /\ pos = 0

\* C13 witness: construction met the declared name "decimal" in a cursor
\* with rows.
C13_Witness ==
    /\ last.op = "NewDuckDBBatchReader" /\ last.why = "panic"
    /\ cursor.n > 0
    /\ \E i \in 1..Len(cursor.cols) :
          cursor.cols[i].dbtype = <<"d", "e", "c", "i", "m", "a", "l">>

\* The canonical types the type mapping can produce.
CanonicalTypes ==
    {"INT8", "INT16", "INT32", "INT64", "FLOAT32", "FLOAT64", "STRING", "BINARY", "BOOL",
     "DATE32", "TIME32", "TIMESTAMP", "DENSE_UNION"}

\* C15: for a schema of canonical types, a constructed reader has one scan
\* destination per field, none of them empty, each of the shape the
\* field's type and nullability fix, from construction to teardown.
C15_DestPerField ==
    (/\ Built /\ ~rowdest.nil
     /\ \A i \in 1..Len(schema.fields) : schema.fields[i].type \in CanonicalTypes)
        => /\ Len(rowdest.dests) = Len(schema.fields)
           /\ \A i \in 1..Len(schema.fields) :
                 /\ rowdest.dests[i].kind # "nil"
                 /\ rowdest.dests[i].kind =
                        (IF cursor.ctor = "schema" THEN AllocDest(schema.fields[i])
                         ELSE AllocInferredDest(schema.fields[i])).kind

\* C16: a batch that Next() finalizes, starting from an empty builder, has
\* one column per field of the schema, and every column has as many
\* entries as the call scanned rows.
C16_ColumnsMatchRows ==
    (Built /\ last.op = "Next" /\ last.bldrBefore = 0 /\ ~record.nil /\ ~schema.nil)
        => /\ Len(record.cols) = Len(schema.fields)
           /\ \A i \in 1..Len(record.cols) : Len(record.cols[i]) = last.n

\* The destination kinds that are raw value slots or nullable wrappers.
TypedKinds ==
    {"uint8", "NullByte", "int32", "NullInt32", "int64", "NullInt64", "float64",
     "NullFloat64", "string", "NullString"}

\* C17: when every destination is a raw value slot or a nullable wrapper,
\* appending the scanned values never fails and the batch holds them
\* unchanged; also for an int8 column.
C17_AppenderMatchesColumn ==
    (/\ Built /\ last.op = "Next" /\ last.bldrBefore = 0 /\ ~rowdest.nil
     /\ \A i \in 1..Len(rowdest.dests) : rowdest.dests[i].kind \in TypedKinds)
        => /\ last.why # "panic"
           /\ ~record.nil =>
                 \A i \in 1..Len(record.cols) : \A k \in 1..Len(record.cols[i]) :
                     LET cell == Cell(cursor, last.start + k - 1)
                     IN  record.cols[i][k] =
                            [null |-> cell.null, v |-> IF cell.null THEN 0 ELSE cell.v]

\* C18: every row Next() scans adds one entry to the column of a union
\* field: the value of the row, tagged with the kind of the value.
C18_UnionAppendsEntry ==
    (Built /\ last.op = "Next" /\ last.bldrBefore = 0 /\ ~record.nil /\ ~schema.nil)
        => \A i \in 1..Len(record.cols) :
               schema.fields[i].type \in {"DENSE_UNION", "SPARSE_UNION"} =>
                   /\ Len(record.cols[i]) = last.n
                   /\ \A k \in 1..Len(record.cols[i]) :
                         /\ record.cols[i][k].v = Cell(cursor, last.start + k - 1).v
                         /\ record.cols[i][k].null = Cell(cursor, last.start + k - 1).null

\* C19: in the column of a binary field a NULL row is a null entry, and a
\* row with bytes, even with none, is a non-null entry with those bytes.
C19_BinaryNullVersusEmpty ==
    (Built /\ last.op = "Next" /\ last.bldrBefore = 0 /\ ~record.nil /\ ~schema.nil)
        => \A i \in 1..Len(record.cols) :
               schema.fields[i].type = "BINARY" =>
                   \A k \in 1..Len(record.cols[i]) :
                       LET cell == Cell(cursor, last.start + k - 1)
                       IN  /\ record.cols[i][k].null = cell.null
                           /\ ~cell.null => record.cols[i][k].v = AsSeq(Bytes(cell.v))

-----------------------------------------------------------------------------
(* Several holders call into the reader.  A call of Next() takes two steps,
   its head and the rest, so that the Retain() and Release() of the other
   holders fall in between; a holder keeps its reference while its call is
   in progress, and one Next() runs at a time. *)

\* r.Next() by holder h, the head: the previous batch is released.
NextEnter(h) ==
    /\ ~panicked
    /\ pc[h] = "idle"
    /\ owned[h] > 0
    /\ \A g \in Holders : pc[g] # "next"
    /\ record' = DropRecord(record).record
    /\ unreleased' = unreleased - DropRecord(record).released
    /\ pc' = [pc EXCEPT ![h] = "next"]
    /\ UNCHANGED <<refCount, schema, rows, bldr, err, rowdest, cursorVars, closes,
                   bldrReleases, discarded, last, nTrue, retains, releases, panicked,
                   owned>>

\* r.Next() by holder h, from the loop to the return.
NextFinish(h) ==
    /\ ~panicked
    /\ pc[h] = "next"
    /\ NextBody
    /\ pc' = [pc EXCEPT ![h] = "idle"]

\* r.Schema() by holder h: the call observes r.schema.
SchemaBy(h) ==
    /\ ~panicked
    /\ pc[h] = "idle"
    /\ owned[h] > 0
    /\ last' = Call("Schema", ~schema.nil, pos, 0, "", ~err.nil, 0)
    /\ UNCHANGED <<refCount, readerVars, cursorVars, closes, bldrReleases, unreleased,
                   discarded, nTrue, retains, releases, panicked, owned, pc>>

InitCalls == InitReader(SmallCursors)

NextCalls ==
    \/ \E h \in Holders, g \in Holders : RetainBy(h, g)
    \/ \E h \in Holders : ReleaseDec(h)
    \/ \E h \in Holders : ReleaseTeardown(h)
    \/ \E h \in Holders : NextEnter(h)
    \/ \E h \in Holders : NextFinish(h)
    \/ \E h \in Holders : SchemaBy(h)

SpecCalls == InitCalls /\ [][NextCalls]_vars

\* C20: when every caller holds a reference of its own during its call and
\* holders release only what they own, no teardown runs or has run while a
\* Next() is in progress, and neither Next() nor Schema() finds the cursor,
\* the builder or the schema cleared.
C20_NoTeardownDuringCalls ==
    /\ \A h \in Holders :
          pc[h] = "next" =>
              /\ closes = 0 /\ bldrReleases = 0 /\ refCount > 0
              /\ ~rows.nil /\ ~bldr.nil /\ ~schema.nil /\ ~rowdest.nil
              /\ \A g \in Holders : pc[g] # "teardown"
    /\ last.op = "Next" => last.why # "panic"
    /\ last.op = "Schema" => last.ret
    /\ ~panicked

\* C20 witness: the second holder is inside Next() on its own reference
\* after the first holder made its last Release().
C20_Witness ==
    /\ pc[2] = "next" /\ owned[2] > 0
    /\ owned[1] = 0 /\ pc[1] = "idle"
    /\ refCount = 1 /\ releases > 0 /\ closes = 0

====
